---- MODULE Spec2Model ----
(***************************************************************************)
(* Restore of a stored tree into a directory on the filesystem             *)
(* (src/src/restore.rs): RestoreTree and the WriteTree operations it       *)
(* implements, over a model of the destination filesystem.                 *)
(*                                                                         *)
(* A filesystem path is the sequence of its components below the           *)
(* destination root, so << >> is the destination itself.  An Apath such as *)
(* "/subdir/subfile" is the sequence << "/", "subdir", "subfile" >>: its   *)
(* leading slash followed by its components.                               *)
(***************************************************************************)
EXTENDS Integers, Sequences, FiniteSets

VARIABLES
    fs,         \* the destination filesystem: path -> node
    fs0,        \* the destination filesystem before anything ran
    now,        \* the filesystem clock
    source,     \* the source tree: its entries in ascending Apath order
    options,    \* RestoreOptions: [overwrite, excludes]
    tree,       \* the RestoreTree: [open, path]
    pc,         \* "start", "copy", "done"; "ops" while called directly
    idx,        \* copy_tree: index of the next entry of source
    stats,      \* copy_tree: the running CopyStats [files, bytes]
    result,     \* what restore returned
    dispatched, \* entries handed to the destination, in order
    finishes,   \* the value of dispatched at each call of finish
    problems,   \* Apaths reported through ui::problem
    called,     \* entries some copy operation was called for
    succeeded,  \* entries whose copy operation has returned Ok
    calls,      \* operations called directly so far
    last        \* the last operation of the destination and its outcome

vars == << fs, fs0, now, source, options, tree, pc, idx, stats, result,
           dispatched, finishes, problems, called, succeeded, calls, last >>

\* ------------------------------------------------------------------ bounds

MaxClock == 2
MaxContentLen == 1
MaxFollow == 2
MaxCalls == 4

\* -------------------------------------------------------------- filesystem

TopNames == {"hello", "link", "subdir", "existing"}

AllPaths ==
    {<< >>} \cup {<<n>> : n \in TopNames}
            \cup {<<d, "subfile">> : d \in {"subdir", "existing"}}

Parent(p) == SubSeq(p, 1, Len(p) - 1)

NoNode == [kind |-> "none", content |-> << >>, target |-> << >>, mtime |-> 0]
FileNode(c, t) == [kind |-> "file", content |-> c, target |-> << >>, mtime |-> t]
DirNode(t) == [kind |-> "dir", content |-> << >>, target |-> << >>, mtime |-> t]
LinkNode(tg, t) == [kind |-> "symlink", content |-> << >>, target |-> tg, mtime |-> t]

IoOk(p) == [err |-> "ok", path |-> p]
IoErr(e, p) == [err |-> e, path |-> p]

\* Path resolution as the kernel does it: every component but the last is
\* followed through symlinks and must be a directory; the last one is followed
\* only when follow is set.  The result names the place the path denotes,
\* whether or not something exists there.
RECURSIVE RealPath(_, _, _, _)
RealPath(f, p, follow, fuel) ==
    IF p = << >> THEN IoOk(p)
    ELSE LET par == RealPath(f, Parent(p), TRUE, fuel) IN
         IF par.err # "ok" THEN par
         ELSE IF f[par.path].kind = "none" THEN IoErr("NotFound", p)
         ELSE IF f[par.path].kind # "dir" THEN IoErr("NotADirectory", p)
         ELSE LET q == Append(par.path, p[Len(p)]) IN
              IF q \notin AllPaths THEN IoErr("NotFound", p)
              ELSE IF f[q].kind = "symlink" /\ follow
                   THEN IF fuel = 0 THEN IoErr("TooManyLinks", p)
                        ELSE RealPath(f, par.path \o f[q].target, TRUE, fuel - 1)
                   ELSE IoOk(q)

\* Creating an entry in a directory advances the directory's own mtime.
AddNode(f, q, node, t) ==
    [x \in AllPaths |->
        IF x = q THEN node
        ELSE IF q # << >> /\ x = Parent(q) THEN [f[x] EXCEPT !.mtime = t]
        ELSE f[x]]

\* std::fs::create_dir (mkdir): the last component is not followed.
FsCreateDir(f, p, t) ==
    LET r == RealPath(f, p, FALSE, MaxFollow) IN
    IF r.err # "ok" THEN [err |-> r.err, fs |-> f]
    ELSE IF f[r.path].kind # "none" THEN [err |-> "AlreadyExists", fs |-> f]
    ELSE [err |-> "ok", fs |-> AddNode(f, r.path, DirNode(t), t)]

\* Faulty variant of FsFileCreate: the file is opened without truncation, so what is
\* written lands after the old content.
FsFileCreateNoTruncate(f, p, t) ==
    LET r == RealPath(f, p, TRUE, MaxFollow) IN
    IF r.err # "ok" THEN [err |-> r.err, fs |-> f, at |-> p]
    ELSE IF f[r.path].kind = "dir" THEN [err |-> "IsADirectory", fs |-> f, at |-> p]
    ELSE IF f[r.path].kind = "file"
         THEN [err |-> "ok", at |-> r.path, fs |-> f]
         ELSE [err |-> "ok", at |-> r.path,
               fs |-> AddNode(f, r.path, FileNode(<< >>, t), t)]

\* std::fs::File::create (open with create and truncate): follows symlinks.
FsFileCreate(f, p, t) ==
    LET r == RealPath(f, p, TRUE, MaxFollow) IN
    IF r.err # "ok" THEN [err |-> r.err, fs |-> f, at |-> p]
    ELSE IF f[r.path].kind = "dir" THEN [err |-> "IsADirectory", fs |-> f, at |-> p]
    ELSE IF f[r.path].kind = "file"
         THEN [err |-> "ok", at |-> r.path,
               fs |-> [f EXCEPT ![r.path] = FileNode(<< >>, t)]]
         ELSE [err |-> "ok", at |-> r.path,
               fs |-> AddNode(f, r.path, FileNode(<< >>, t), t)]

\* Bytes written through the open file.
FsWrite(f, at, bytes, t) ==
    [f EXCEPT ![at] = FileNode(f[at].content \o bytes, t)]

\* std::os::unix::fs::symlink: the last component is not followed.
FsSymlink(f, tg, p, t) ==
    LET r == RealPath(f, p, FALSE, MaxFollow) IN
    IF r.err # "ok" THEN [err |-> r.err, fs |-> f]
    ELSE IF f[r.path].kind # "none" THEN [err |-> "AlreadyExists", fs |-> f]
    ELSE [err |-> "ok", fs |-> AddNode(f, r.path, LinkNode(tg, t), t)]

\* What stat() and lstat() see at a path.
Stat(f, p) ==
    LET r == RealPath(f, p, TRUE, MaxFollow) IN
    IF r.err = "ok" THEN f[r.path] ELSE NoNode

Lstat(f, p) ==
    LET r == RealPath(f, p, FALSE, MaxFollow) IN
    IF r.err = "ok" THEN f[r.path] ELSE NoNode

Children(f, p) == {q \in AllPaths : q # << >> /\ Parent(q) = p /\ f[q].kind # "none"}

\* ------------------------------------------------------------ results

DestPath == << >>

OkResult(n) == [ok |-> TRUE, tag |-> "Ok", path |-> << >>, source |-> "", bytes |-> n]
ErrRestore(p, e) == [ok |-> FALSE, tag |-> "Restore", path |-> p, source |-> e, bytes |-> 0]
ErrDestinationNotEmpty(p) ==
    [ok |-> FALSE, tag |-> "DestinationNotEmpty", path |-> p, source |-> "", bytes |-> 0]
\* An error of the source tree, passed on unchanged: it names no destination path.
ErrSource(e) == [ok |-> FALSE, tag |-> "Source", path |-> << >>, source |-> e, bytes |-> 0]

\* ------------------------------------------------------ crate::io helpers

ensure_dir_exists(f, p, t) ==
    LET c == FsCreateDir(f, p, t) IN
    IF c.err = "AlreadyExists" THEN [err |-> "ok", fs |-> f] ELSE c

directory_is_empty(f, p) ==
    LET r == RealPath(f, p, TRUE, MaxFollow) IN
    IF r.err # "ok" THEN [err |-> r.err, empty |-> FALSE]
    ELSE IF f[r.path].kind = "none" THEN [err |-> "NotFound", empty |-> FALSE]
    ELSE IF f[r.path].kind # "dir" THEN [err |-> "NotADirectory", empty |-> FALSE]
    ELSE [err |-> "ok", empty |-> Children(f, r.path) = {}]

\* ------------------------------------------------------------- ReadTree

file_contents(entry) ==
    IF entry.kind = "file" /\ entry.available
    THEN [err |-> "ok", bytes |-> entry.content]
    ELSE [err |-> "Unavailable", bytes |-> << >>]

\* ----------------------------------------------------------- RestoreTree

NoTree == [open |-> FALSE, path |-> DestPath]
OpenTree(p) == [open |-> TRUE, path |-> p]

\* Faulty variant of create: the two outcomes of directory_is_empty are swapped.
create_swapped(f, p, t) ==
    LET e == ensure_dir_exists(f, p, t) IN
    IF e.err # "ok"
    THEN [res |-> ErrRestore(p, e.err), fs |-> e.fs, tree |-> NoTree]
    ELSE LET d == directory_is_empty(e.fs, p) IN
         IF d.err # "ok"
         THEN [res |-> ErrRestore(p, d.err), fs |-> e.fs, tree |-> NoTree]
         ELSE IF d.empty
              THEN [res |-> ErrDestinationNotEmpty(p), fs |-> e.fs, tree |-> NoTree]
              ELSE [res |-> OkResult(0), fs |-> e.fs, tree |-> OpenTree(p)]

create(f, p, t) ==
    LET e == ensure_dir_exists(f, p, t) IN
    IF e.err # "ok"
    THEN [res |-> ErrRestore(p, e.err), fs |-> e.fs, tree |-> NoTree]
    ELSE LET d == directory_is_empty(e.fs, p) IN
         IF d.err # "ok"
         THEN [res |-> ErrRestore(p, d.err), fs |-> e.fs, tree |-> NoTree]
         ELSE IF d.empty
              THEN [res |-> OkResult(0), fs |-> e.fs, tree |-> OpenTree(p)]
              ELSE [res |-> ErrDestinationNotEmpty(p), fs |-> e.fs, tree |-> NoTree]

create_overwrite(f, p) ==
    [res |-> OkResult(0), fs |-> f, tree |-> OpenTree(p)]

\* self.path.join(&apath[1..])
rooted_path(tr, apath) == tr.path \o Tail(apath)

finish(f) == [res |-> OkResult(0), fs |-> f]

copy_dir(f, tr, entry, t) ==
    LET path == rooted_path(tr, entry.apath)
        c == FsCreateDir(f, path, t)
    IN IF c.err = "ok" THEN [res |-> OkResult(0), fs |-> c.fs]
       ELSE IF c.err = "AlreadyExists" THEN [res |-> OkResult(0), fs |-> c.fs]
       ELSE [res |-> ErrRestore(path, c.err), fs |-> c.fs]

\* Faulty variant of copy_file: an error of file_contents is dropped and the file
\* left empty.
copy_file_lenient(f, tr, entry, t, fault, written) ==
    LET path == rooted_path(tr, entry.apath)
        c == FsFileCreate(f, path, t)
    IN IF c.err # "ok" THEN [res |-> ErrRestore(path, c.err), fs |-> c.fs]
       ELSE LET content == file_contents(entry) IN
            IF content.err # "ok" THEN [res |-> OkResult(0), fs |-> c.fs]
            ELSE IF fault = "copy"
                 THEN [res |-> ErrRestore(path, "Other"),
                       fs |-> FsWrite(c.fs, c.at, SubSeq(content.bytes, 1, written), t)]
                 ELSE [res |-> OkResult(Len(content.bytes)),
                       fs |-> FsWrite(c.fs, c.at, content.bytes, t)]

\* fault = "copy" is an I/O error of std::io::copy after `written` bytes.
copy_file(f, tr, entry, t, fault, written) ==
    LET path == rooted_path(tr, entry.apath)
        c == FsFileCreate(f, path, t)
    IN IF c.err # "ok" THEN [res |-> ErrRestore(path, c.err), fs |-> c.fs]
       ELSE LET content == file_contents(entry) IN
            IF content.err # "ok" THEN [res |-> ErrSource(content.err), fs |-> c.fs]
            ELSE IF fault = "copy"
                 THEN [res |-> ErrRestore(path, "Other"),
                       fs |-> FsWrite(c.fs, c.at, SubSeq(content.bytes, 1, written), t)]
                 ELSE [res |-> OkResult(Len(content.bytes)),
                       fs |-> FsWrite(c.fs, c.at, content.bytes, t)]

\* Faulty variant of copy_symlink: an entry with no target is an error.
copy_symlink_strict(f, tr, entry, t) ==
    IF entry.hasTarget
    THEN LET path == rooted_path(tr, entry.apath)
             c == FsSymlink(f, entry.target, path, t)
         IN IF c.err # "ok"
            THEN [res |-> ErrRestore(path, c.err), fs |-> c.fs, problem |-> FALSE]
            ELSE [res |-> OkResult(0), fs |-> c.fs, problem |-> FALSE]
    ELSE [res |-> ErrRestore(rooted_path(tr, entry.apath), "NoTarget"),
          fs |-> f, problem |-> TRUE]

copy_symlink(f, tr, entry, t) ==
    IF entry.hasTarget
    THEN LET path == rooted_path(tr, entry.apath)
             c == FsSymlink(f, entry.target, path, t)
         IN IF c.err # "ok"
            THEN [res |-> ErrRestore(path, c.err), fs |-> c.fs, problem |-> FALSE]
            ELSE [res |-> OkResult(0), fs |-> c.fs, problem |-> FALSE]
    ELSE [res |-> OkResult(0), fs |-> f, problem |-> TRUE]

\* ------------------------------------------------------- RestoreOptions

\* excludes::excludes_nothing()
excludes_nothing == {}

\* Faulty variant of RestoreOptionsDefault: the default excludes a file.
RestoreOptionsExcluding == [overwrite |-> FALSE, excludes |-> {"/hello"}]

RestoreOptionsDefault == [overwrite |-> FALSE, excludes |-> excludes_nothing]

\* One glob of a GlobSet against an Apath.
GlobMatches(g, apath) ==
    CASE g = "/**/subfile" -> Len(apath) >= 2 /\ apath[Len(apath)] = "subfile"
      [] g = "/hello" -> apath = << "/", "hello" >>
      [] g = "/subdir" -> apath = << "/", "subdir" >>
      [] OTHER -> FALSE

Matches(excludes, apath) == \E g \in excludes : GlobMatches(g, apath)

\* ------------------------------------------------------------ the inputs

Bytes == {0, 1}
Contents == UNION {[1..n -> Bytes] : n \in 0..MaxContentLen}
Faults == {"none", "copy"}

DirEntry(ap, mt) ==
    [apath |-> ap, kind |-> "dir", mtime |-> mt, hasTarget |-> FALSE,
     target |-> << >>, content |-> << >>, available |-> FALSE]
FileEntry(ap, mt, c, av) ==
    [apath |-> ap, kind |-> "file", mtime |-> mt, hasTarget |-> FALSE,
     target |-> << >>, content |-> c, available |-> av]
SymlinkEntry(ap, mt, ht) ==
    [apath |-> ap, kind |-> "symlink", mtime |-> mt, hasTarget |-> ht,
     target |-> IF ht THEN << "existing" >> ELSE << >>,
     content |-> << >>, available |-> FALSE]

\* The stored trees: /, /hello, /link, /subdir, /subdir/subfile in Apath order.
SourceTrees ==
    {<< DirEntry(<< "/" >>, 0),
        FileEntry(<< "/", "hello" >>, 1, c, av),
        SymlinkEntry(<< "/", "link" >>, 0, ht),
        DirEntry(<< "/", "subdir" >>, 1),
        FileEntry(<< "/", "subdir", "subfile" >>, 0, << 0, 1 >>, TRUE) >> :
     c \in Contents, av \in BOOLEAN, ht \in BOOLEAN}

Nothing == [p \in AllPaths |-> NoNode]

OldNodes == {NoNode, FileNode(<< 1, 1 >>, 0), DirNode(0), LinkNode(<< "existing" >>, 0)}

\* The destinations a restore may find: missing, a regular file, an empty
\* directory, or a directory holding "existing" and at most one of the
\* names the stored tree also holds.
Destinations ==
    {Nothing, [Nothing EXCEPT ![<< >>] = FileNode(<< 1 >>, 0)]}
    \cup {[p \in AllPaths |->
             IF p = << >> THEN DirNode(0)
             ELSE IF p = << "existing" >> THEN ex
             ELSE IF p = << c >> THEN old
             ELSE NoNode] :
          ex \in OldNodes \ {LinkNode(<< "existing" >>, 0)},
          c \in {"hello", "link", "subdir"},
          old \in OldNodes}

ExcludeSets == {excludes_nothing, {"/**/subfile"}, {"/hello"}, {"/subdir"}}

NoOp(f) == [op |-> "none", entry |-> 0, res |-> OkResult(0), pre |-> f, repeat |-> FALSE]
NoStats == [files |-> 0, bytes |-> 0]
NoResult == [ok |-> FALSE, tag |-> "none", path |-> << >>, source |-> "", bytes |-> 0]

InitCommon ==
    /\ fs \in Destinations
    /\ fs0 = fs
    /\ now = 1
    /\ source \in SourceTrees
    /\ tree = NoTree
    /\ idx = 1
    /\ stats = NoStats
    /\ result = NoResult
    /\ dispatched = << >>
    /\ finishes = << >>
    /\ problems = {}
    /\ called = {}
    /\ succeeded = {}
    /\ calls = 0
    /\ last = NoOp(fs)

\* ------------------------------------------------ restore and copy_tree

Init ==
    /\ InitCommon
    /\ pc = "start"
    /\ options \in {[overwrite |-> o, excludes |-> x] : o \in BOOLEAN, x \in ExcludeSets}

Times == now..MaxClock

Op(name, i, res, rep) == [op |-> name, entry |-> i, res |-> res, pre |-> fs, repeat |-> rep]

\* restore(): build the RestoreTree the overwrite flag asks for, then copy_tree.
Restore ==
    /\ pc = "start"
    /\ \E t \in Times :
         LET c == IF options.overwrite THEN create_overwrite(fs, DestPath)
                  ELSE create(fs, DestPath, t)
         IN /\ now' = t
            /\ fs' = c.fs
            /\ tree' = c.tree
            /\ last' = Op(IF options.overwrite THEN "create_overwrite" ELSE "create",
                          0, c.res, FALSE)
            /\ pc' = IF c.res.ok THEN "copy" ELSE "done"
            /\ result' = IF c.res.ok THEN result ELSE c.res
    /\ UNCHANGED << fs0, source, options, idx, stats, dispatched, finishes,
                    problems, called, succeeded, calls >>

\* What copy_tree does with the outcome of one entry.
AfterEntry(res) ==
    /\ pc' = IF res.ok THEN "copy" ELSE "finish"
    /\ idx' = IF res.ok THEN idx + 1 ELSE idx
    /\ result' = IF res.ok THEN result ELSE res
    /\ dispatched' = Append(dispatched, idx)
    /\ called' = called \cup {idx}
    /\ succeeded' = IF res.ok THEN succeeded \cup {idx} ELSE succeeded

Pending(k) ==
    /\ pc = "copy"
    /\ idx <= Len(source)
    /\ ~Matches(options.excludes, source[idx].apath)
    /\ source[idx].kind = k

CopyTreeSkip ==
    /\ pc = "copy"
    /\ idx <= Len(source)
    /\ Matches(options.excludes, source[idx].apath)
    /\ idx' = idx + 1
    /\ UNCHANGED << fs, fs0, now, source, options, tree, pc, stats, result,
                    dispatched, finishes, problems, called, succeeded, calls, last >>

CopyTreeDir ==
    /\ Pending("dir")
    /\ \E t \in Times :
         LET c == copy_dir(fs, tree, source[idx], t)
         IN /\ now' = t
            /\ fs' = c.fs
            /\ last' = Op("copy_dir", idx, c.res, idx \in succeeded)
            /\ AfterEntry(c.res)
    /\ UNCHANGED << fs0, source, options, tree, stats, finishes, problems, calls >>

CopyTreeFile ==
    /\ Pending("file")
    /\ \E t \in Times, fault \in Faults, w \in 0..Len(source[idx].content) :
         /\ fault = "none" => w = 0
         /\ LET c == copy_file(fs, tree, source[idx], t, fault, w)
            IN /\ now' = t
               /\ fs' = c.fs
               /\ last' = Op("copy_file", idx, c.res, idx \in succeeded)
               /\ stats' = IF c.res.ok
                           THEN [files |-> stats.files + 1,
                                 bytes |-> stats.bytes + c.res.bytes]
                           ELSE stats
               /\ AfterEntry(c.res)
    /\ UNCHANGED << fs0, source, options, tree, finishes, problems, calls >>

CopyTreeSymlink ==
    /\ Pending("symlink")
    /\ \E t \in Times :
         LET c == copy_symlink(fs, tree, source[idx], t)
         IN /\ now' = t
            /\ fs' = c.fs
            /\ last' = Op("copy_symlink", idx, c.res, idx \in succeeded)
            /\ problems' = IF c.problem THEN problems \cup {source[idx].apath}
                           ELSE problems
            /\ AfterEntry(c.res)
    /\ UNCHANGED << fs0, source, options, tree, stats, finishes, calls >>

\* finish() once the entries are exhausted or one of them failed.
CopyTreeFinish ==
    /\ \/ pc = "copy" /\ idx > Len(source)
       \/ pc = "finish"
    /\ LET c == finish(fs)
       IN /\ fs' = c.fs
          /\ last' = Op("finish", 0, c.res, FALSE)
          /\ result' = IF pc = "finish" THEN result
                       ELSE IF c.res.ok THEN OkResult(stats.bytes + c.res.bytes)
                       ELSE c.res
    /\ finishes' = Append(finishes, Len(dispatched))
    /\ tree' = NoTree
    /\ pc' = "done"
    /\ UNCHANGED << fs0, now, source, options, idx, stats, dispatched,
                    problems, called, succeeded, calls >>

Next ==
    \/ Restore
    \/ CopyTreeSkip
    \/ CopyTreeDir
    \/ CopyTreeFile
    \/ CopyTreeSymlink
    \/ CopyTreeFinish

Spec == Init /\ [][Next]_vars

\* ------------------------------------- the operations, called in any order

InitOps ==
    /\ InitCommon
    /\ pc = "ops"
    /\ options = RestoreOptionsDefault
    /\ source[2].content = << >>

OpCreate ==
    /\ pc = "ops"
    /\ calls < MaxCalls
    /\ calls' = calls + 1
    /\ ~tree.open
    /\ \E t \in Times :
         LET c == create(fs, DestPath, t)
         IN /\ now' = t
            /\ fs' = c.fs
            /\ tree' = c.tree
            /\ last' = Op("create", 0, c.res, FALSE)
    /\ UNCHANGED << fs0, source, options, pc, idx, stats, result, dispatched,
                    finishes, problems, called, succeeded >>

OpCreateOverwrite ==
    /\ pc = "ops"
    /\ calls < MaxCalls
    /\ calls' = calls + 1
    /\ ~tree.open
    /\ LET c == create_overwrite(fs, DestPath)
       IN /\ fs' = c.fs
          /\ tree' = c.tree
          /\ last' = Op("create_overwrite", 0, c.res, FALSE)
    /\ UNCHANGED << fs0, now, source, options, pc, idx, stats, result, dispatched,
                    finishes, problems, called, succeeded >>

Called(i, res) ==
    /\ called' = called \cup {i}
    /\ succeeded' = IF res.ok THEN succeeded \cup {i} ELSE succeeded

Ready(i, k) ==
    /\ pc = "ops"
    /\ calls < MaxCalls
    /\ calls' = calls + 1
    /\ tree.open
    /\ source[i].kind = k

OpCopyDir ==
    /\ \E i \in 1..Len(source), t \in Times :
         /\ Ready(i, "dir")
         /\ LET c == copy_dir(fs, tree, source[i], t)
            IN /\ now' = t
               /\ fs' = c.fs
               /\ last' = Op("copy_dir", i, c.res, i \in succeeded)
               /\ Called(i, c.res)
    /\ UNCHANGED << fs0, source, options, tree, pc, idx, stats, result, dispatched,
                    finishes, problems >>

OpCopyFile ==
    /\ \E i \in 1..Len(source), t \in Times, fault \in Faults, w \in 0..MaxContentLen + 1 :
         /\ Ready(i, "file")
         /\ w <= Len(source[i].content)
         /\ fault = "none" => w = 0
         /\ LET c == copy_file(fs, tree, source[i], t, fault, w)
            IN /\ now' = t
               /\ fs' = c.fs
               /\ last' = Op("copy_file", i, c.res, i \in succeeded)
               /\ Called(i, c.res)
    /\ UNCHANGED << fs0, source, options, tree, pc, idx, stats, result, dispatched,
                    finishes, problems >>

OpCopySymlink ==
    /\ \E i \in 1..Len(source), t \in Times :
         /\ Ready(i, "symlink")
         /\ LET c == copy_symlink(fs, tree, source[i], t)
            IN /\ now' = t
               /\ fs' = c.fs
               /\ last' = Op("copy_symlink", i, c.res, i \in succeeded)
               /\ problems' = IF c.problem THEN problems \cup {source[i].apath}
                              ELSE problems
               /\ Called(i, c.res)
    /\ UNCHANGED << fs0, source, options, tree, pc, idx, stats, result, dispatched,
                    finishes >>

OpFinish ==
    /\ pc = "ops"
    /\ calls < MaxCalls
    /\ calls' = calls + 1
    /\ tree.open
    /\ LET c == finish(fs)
       IN /\ fs' = c.fs
          /\ last' = Op("finish", 0, c.res, FALSE)
    /\ tree' = NoTree
    /\ UNCHANGED << fs0, now, source, options, pc, idx, stats, result, dispatched,
                    finishes, problems, called, succeeded >>

NextOps ==
    \/ OpCreate
    \/ OpCreateOverwrite
    \/ OpCopyDir
    \/ OpCopyFile
    \/ OpCopySymlink
    \/ OpFinish

SpecOps == InitOps /\ [][NextOps]_vars

\* ------------------------------------------------------------ the claims

EntryPath(i) == rooted_path(OpenTree(DestPath), source[i].apath)

Entries == 1..Len(source)
Excluded(i) == Matches(options.excludes, source[i].apath)
Wanted == {i \in Entries : ~Excluded(i)}
DispatchedSet == {dispatched[k] : k \in 1..Len(dispatched)}

SameData(a, b) == a.kind = b.kind /\ a.content = b.content /\ a.target = b.target
Untouched(f, g) == \A p \in AllPaths : SameData(f[p], g[p])

NonEmptyDir(f, p) == f[p].kind = "dir" /\ Children(f, p) # {}
MissingOrEmptyDir(f, p) ==
    f[p].kind = "none" \/ (f[p].kind = "dir" /\ Children(f, p) = {})

RECURSIVE SumBytes(_)
SumBytes(S) ==
    IF S = {} THEN 0
    ELSE LET i == CHOOSE x \in S : TRUE
         IN Len(source[i].content) + SumBytes(S \ {i})

\* The entry is in the destination as what the stored tree says it is.
Present(f, i) ==
    LET e == source[i]
        n == Lstat(f, EntryPath(i))
    IN CASE e.kind = "dir" -> n.kind = "dir"
         [] e.kind = "file" -> n.kind = "file" /\ n.content = e.content
         [] e.kind = "symlink" ->
                IF e.hasTarget THEN n.kind = "symlink" /\ n.target = e.target
                ELSE n.kind = "none"

\* C1: create succeeds on a missing or empty destination and leaves an empty
\* directory there; on a directory with at least one entry it fails with
\* DestinationNotEmpty, changes nothing in the destination, and nothing is
\* restored.
C1_CreateRefusesNonEmpty ==
    last.op = "create" =>
        /\ MissingOrEmptyDir(last.pre, DestPath) =>
              /\ last.res.ok
              /\ tree = OpenTree(DestPath)
              /\ fs[DestPath].kind = "dir"
              /\ Children(fs, DestPath) = {}
        /\ NonEmptyDir(last.pre, DestPath) =>
              /\ last.res = ErrDestinationNotEmpty(DestPath)
              /\ result = last.res
              /\ fs = last.pre
              /\ pc = "done"
              /\ dispatched = << >>

C1_Witness ==
    /\ last.op = "create"
    /\ NonEmptyDir(last.pre, DestPath)
    /\ last.res.tag = "DestinationNotEmpty"

\* C2: after a restore through create_overwrite into a directory has
\* succeeded, every path that existed before and is not the resolved path of
\* a restored entry is the same as before (kind, content, target), and every
\* entry of the source tree that was not excluded is in the destination.
C2_OverwriteKeepsUnrelated ==
    (pc = "done" /\ options.overwrite /\ result.ok /\ fs0[DestPath].kind = "dir") =>
        /\ last.op = "finish"
        /\ \A p \in AllPaths :
              (fs0[p].kind # "none" /\ p \notin {EntryPath(i) : i \in called})
                  => SameData(fs[p], fs0[p])
        /\ \A i \in Wanted : Present(fs, i)

\* C3: when an entry with something to restore is copied onto a path of the
\* destination directory that a regular file held before the restore, the
\* copy does not fail on the collision and leaves the entry there in place
\* of the file.
C3_CollidingFileReplaced ==
    (/\ last.op \in {"copy_dir", "copy_file", "copy_symlink"}
     /\ fs0[DestPath].kind = "dir"
     /\ fs0[EntryPath(last.entry)].kind = "file"
     /\ source[last.entry].kind = "symlink" => source[last.entry].hasTarget)
        => /\ last.res.source # "AlreadyExists"
           /\ last.res.ok => Present(fs, last.entry)

\* C4: in a destination that is a directory, copy_dir on an entry it has
\* already returned Ok for returns Ok again;
\* whenever it returns Ok a directory is at the path; and a failure of the
\* directory creation other than AlreadyExists is returned as an error.
C4_CopyDirIdempotent ==
    (last.op = "copy_dir" /\ fs0[DestPath].kind = "dir") =>
        /\ last.repeat => last.res.ok
        /\ last.res.ok => Stat(fs, EntryPath(last.entry)).kind = "dir"
        /\ FsCreateDir(last.pre, EntryPath(last.entry), now).err
               \notin {"ok", "AlreadyExists"} => ~last.res.ok

\* C5: after a successful copy_file, reading the destination path yields
\* exactly the entry's bytes, whatever was there before; the byte count it
\* returns is their number; and the stats byte counter is the sum of the
\* lengths of the files copied so far, which is what a successful run returns.
C5_ByteFidelity ==
    /\ (last.op = "copy_file" /\ last.res.ok) =>
          LET e == source[last.entry]
              n == Stat(fs, EntryPath(last.entry))
          IN /\ n.kind = "file"
             /\ n.content = e.content
             /\ last.res.bytes = Len(e.content)
    /\ stats.bytes = SumBytes({i \in succeeded : source[i].kind = "file"})
    /\ stats.files = Cardinality({i \in succeeded : source[i].kind = "file"})
    /\ (pc = "done" /\ result.ok) => result.bytes = stats.bytes

C5_Witness ==
    /\ last.op = "copy_file"
    /\ last.res.ok
    /\ Stat(last.pre, EntryPath(last.entry)).kind = "file"
    /\ Stat(last.pre, EntryPath(last.entry)).content # << >>
    /\ Stat(last.pre, EntryPath(last.entry)).content # source[last.entry].content
    /\ stats.bytes > 0

C7_MtimeFidelity ==
    /\ (last.op = "copy_file" /\ last.res.ok) =>
          Stat(fs, EntryPath(last.entry)).mtime = source[last.entry].mtime
    /\ (pc = "done" /\ result.ok) =>
          \A i \in succeeded :
              source[i].kind = "dir" =>
                  Stat(fs, EntryPath(i)).mtime = source[i].mtime

C9_AbortAndFinishOnce ==
    /\ Len(finishes) <= 1
    /\ pc # "done" => finishes = << >>
    /\ pc = "done" =>
          IF last.op = "create" THEN finishes = << >> /\ dispatched = << >>
          ELSE finishes = << Len(dispatched) >>
    /\ \A k \in 1..(Len(dispatched) - 1) : dispatched[k] \in succeeded
    /\ (last.op = "copy_file" /\ ~source[last.entry].available) => ~last.res.ok
    /\ (last.op = "copy_file" /\ ~last.res.ok) =>
          /\ pc = "finish"
          /\ result = last.res
          /\ dispatched[Len(dispatched)] = last.entry
    /\ (pc = "done" /\ dispatched # << >>
            /\ dispatched[Len(dispatched)] \notin succeeded) =>
          ~result.ok /\ result.tag \in {"Restore", "Source"}

C9_Witness ==
    /\ pc = "done"
    /\ ~result.ok
    /\ finishes = << 2 >>
    /\ dispatched = << 1, 2 >>
    /\ source[2].kind = "file"
    /\ Cardinality(Wanted) = 5

\* C10: a copy_file that fails because the source tree cannot give the
\* entry's contents leaves every path of the destination as it was, and an
\* error of creating or writing the file carries the resolved path.
C10_SourceFailureLeavesDestination ==
    (last.op = "copy_file" /\ ~last.res.ok) =>
        /\ last.res.tag = "Source" => Untouched(fs, last.pre)
        /\ last.res.tag = "Restore" => last.res.path = EntryPath(last.entry)

====
